---- MODULE Spec2Model ----
(***************************************************************************)
(* STGRadar: the odds normaliser (scrapers/oddsmonitor.py) and the cache   *)
(* gate of the server (servidor.py).                                       *)
(*                                                                         *)
(* Python strings are sequences of one-character strings, so that          *)
(* replace(), lower(), title() and the code-point comparison of sort() are *)
(* computed, not assumed.  JSON values are tagged records; a Python        *)
(* exception is an explicit "raised" outcome; None is the empty tuple and  *)
(* a value v that is present is the one-element tuple <<v>>.               *)
(***************************************************************************)
EXTENDS Integers, Sequences, FiniteSets, TLC

VARIABLES
  now,          \* time.time(), in whole seconds
  _cache_jogos,  \* servidor._cache_jogos: None or <<list of jogos>>
  _cache_ts,     \* servidor._cache_ts
  pending,      \* None, or <<_cache_ts before it>> once _invalidar_cache ran
                \* and no _obter_jogos ran since
  failCached,   \* the last refresh that stored a result got a provider failure
  last,         \* what the last sequential operation did
  pc,           \* concurrent callers: position inside _obter_jogos
  fetched,      \* concurrent callers: value buscar_todos_jogos() returned
  calls,        \* provider calls since the last _invalidar_cache
  episode,      \* callers that called once each since the last _invalidar_cache,
                \* with no exception and no clock jump since
  lost,         \* an invalidation overtaken by a refresh already in flight
  payload,      \* normaliser run: the HTTP response handed to _buscar_raw
  normOut,      \* normaliser run: None or <<result of buscar_todos_jogos>>
  arbIn,        \* calculator run: the arguments
  arbOut        \* calculator run: None, or <<result>> once it ran

vars == <<now, _cache_jogos, _cache_ts, pending, failCached, last, pc, fetched,
          calls, episode, lost, payload, normOut, arbIn, arbOut>>
cacheVars == <<now, _cache_jogos, _cache_ts, pending, failCached, last>>
concVars == <<pc, fetched, calls, episode, lost>>
normVars == <<payload, normOut>>
arbVars == <<arbIn, arbOut>>

None == <<>>
Some(v) == <<v>>

(***************************************************************************)
(* Strings                                                                 *)
(***************************************************************************)
\* The characters the model uses, in code-point order.
Alphabet ==
  <<" ", "4", "7", "?", "A", "B", "E", "K", "N", "O", "R", "S", "T", "V", "Z",
    "_", "a", "b", "e", "k", "n", "o", "r", "s", "t", "v", "z", "|">>

Ord(c) == CHOOSE i \in 1..Len(Alphabet) : Alphabet[i] = c

Cased ==
  <<<<"a", "A">>, <<"b", "B">>, <<"e", "E">>, <<"k", "K">>, <<"n", "N">>,
    <<"o", "O">>, <<"r", "R">>, <<"s", "S">>, <<"t", "T">>, <<"v", "V">>,
    <<"z", "Z">>>>

IsCased(c) == \E i \in 1..Len(Cased) : c \in {Cased[i][1], Cased[i][2]}

LowerChar(c) ==
  IF \E i \in 1..Len(Cased) : Cased[i][2] = c
  THEN Cased[CHOOSE i \in 1..Len(Cased) : Cased[i][2] = c][1]
  ELSE c

UpperChar(c) ==
  IF \E i \in 1..Len(Cased) : Cased[i][1] = c
  THEN Cased[CHOOSE i \in 1..Len(Cased) : Cased[i][1] = c][2]
  ELSE c

\* str.lower()
Lower(s) == [i \in 1..Len(s) |-> LowerChar(s[i])]

\* str.replace(" ", "_")
ReplaceSpace(s) == [i \in 1..Len(s) |-> IF s[i] = " " THEN "_" ELSE s[i]]

\* str.title(): a cased character is upper-cased when the character before it
\* is not cased, lower-cased otherwise.
Title(s) ==
  [i \in 1..Len(s) |->
     IF i > 1 /\ IsCased(s[i - 1]) THEN LowerChar(s[i]) ELSE UpperChar(s[i])]

\* Python's < on str: lexicographic by code point, a proper prefix first.
RECURSIVE StrLess(_, _)
StrLess(a, b) ==
  IF b = <<>> THEN FALSE
  ELSE IF a = <<>> THEN TRUE
  ELSE IF a[1] # b[1] THEN Ord(a[1]) < Ord(b[1])
  ELSE StrLess(Tail(a), Tail(b))

(***************************************************************************)
(* JSON values                                                             *)
(***************************************************************************)
Null == [tag |-> "null"]
Str(s) == [tag |-> "str", val |-> s]
Num(n) == [tag |-> "num", val |-> n]
Bool(b) == [tag |-> "bool", val |-> b]
List(l) == [tag |-> "list", val |-> l]
Obj(f) == [tag |-> "obj", val |-> f]
EmptyObj == Obj(<<>>)

IsObj(v) == v.tag = "obj"

\* dict.get(k, dflt) on a JSON object
Get(d, k, dflt) == IF k \in DOMAIN d.val THEN d.val[k] ELSE dflt

\* Python truthiness, as `or` and `not` use it
Truthy(v) ==
  CASE v.tag = "null" -> FALSE
    [] v.tag = "bool" -> v.val
    [] v.tag = "num" -> v.val # 0
    [] v.tag = "str" -> v.val # <<>>
    [] v.tag = "list" -> v.val # <<>>
    [] v.tag = "obj" -> DOMAIN v.val # {}

\* a or b
PyOr(a, b) == IF Truthy(a) THEN a ELSE b

\* f"{v}" for the values the model feeds it: a str, or None
Fmt(v) == IF v.tag = "str" THEN v.val ELSE <<"N", "o", "n", "e">>

(***************************************************************************)
(* scrapers/oddsmonitor.py: the normaliser                                 *)
(***************************************************************************)
\* NOMES_CASAS, three of its thirty entries
NOMES_CASAS ==
  (<<"7", "k">> :> <<"7", "K">>) @@
  (<<"b", "r", "4">> :> <<"B", "r", "4">>) @@
  (<<"k", "t", "o">> :> <<"K", "T", "O">>)

\* NOMES_CASAS.get(nome_raw, nome_raw.title())
NomeDisplay(nome_raw) ==
  IF nome_raw \in DOMAIN NOMES_CASAS THEN NOMES_CASAS[nome_raw] ELSE Title(nome_raw)

\* _buscar_raw: http is the outcome of requests.post + raise_for_status + json().
\* Returns [raised, items]; items is the JSON value handed back.
_buscar_raw(http) ==
  IF ~http.ok THEN [raised |-> TRUE, items |-> Null]
  ELSE LET dados == http.dados IN
    CASE dados.tag = "list" -> [raised |-> FALSE, items |-> dados]
      [] dados.tag = "obj" ->
           LET data == Get(dados, "data", EmptyObj) IN
           IF ~IsObj(data) THEN [raised |-> TRUE, items |-> Null]
           ELSE [raised |-> FALSE,
                 items |-> Get(data, "items", Get(dados, "items", List(<<>>)))]
      [] OTHER -> [raised |-> FALSE, items |-> List(<<>>)]

\* One slot of "best": best_raw.get(k1, {}).get(f) or best_raw.get(k2, {}).get(f, dflt)
SlotField(best_raw, k1, k2, f, dflt) ==
  PyOr(Get(Get(best_raw, k1, EmptyObj), f, Null),
       Get(Get(best_raw, k2, EmptyObj), f, dflt))

SlotFieldRaises(best_raw, k1, k2, f) ==
  \/ ~IsObj(Get(best_raw, k1, EmptyObj))
  \/ /\ ~Truthy(Get(Get(best_raw, k1, EmptyObj), f, Null))
     /\ ~IsObj(Get(best_raw, k2, EmptyObj))

BestSlot(best_raw, k1, k2) ==
  [odd |-> SlotField(best_raw, k1, k2, "odd", Num(0)),
   bookmakers |-> SlotField(best_raw, k1, k2, "bookmakers", List(<<>>))]

BestSlotRaises(best_raw, k1, k2) ==
  \/ SlotFieldRaises(best_raw, k1, k2, "odd")
  \/ SlotFieldRaises(best_raw, k1, k2, "bookmakers")

Best(best_raw) ==
  [casa |-> BestSlot(best_raw, "1", "odd1"),
   empate |-> BestSlot(best_raw, "X", "oddX"),
   visitante |-> BestSlot(best_raw, "2", "odd2")]

BestRaises(best_raw) ==
  \/ ~IsObj(best_raw)
  \/ BestSlotRaises(best_raw, "1", "odd1")
  \/ BestSlotRaises(best_raw, "X", "oddX")
  \/ BestSlotRaises(best_raw, "2", "odd2")

\* The dict appended to casas for one book
Casa(book) ==
  LET nome_raw == Get(book, "bookmaker", Str(<<>>)) IN
  [bookmaker |-> nome_raw,
   nome_display |-> NomeDisplay(nome_raw.val),
   odd1 |-> Get(book, "odd1", Num(0)),
   oddX |-> Get(book, "oddX", Num(0)),
   odd2 |-> Get(book, "odd2", Num(0)),
   isBest1 |-> Get(book, "isBest1", Bool(FALSE)),
   isBestX |-> Get(book, "isBestX", Bool(FALSE)),
   isBest2 |-> Get(book, "isBest2", Bool(FALSE)),
   href |-> Get(book, "href", Str(<<>>)),
   atualizado_em |-> Get(book, "updated_at", Str(<<>>))]

\* book.get on a non-dict, or nome_raw.title() on a non-str, raises
CasaRaises(book) ==
  \/ ~IsObj(book)
  \/ Get(book, "bookmaker", Str(<<>>)).tag # "str"

\* `for book in books_raw`: a list yields its elements, an empty str or dict
\* nothing; a non-empty str or dict yields strings, on which book.get raises;
\* anything else is not iterable.
BooksRaise(books_raw) ==
  CASE books_raw.tag = "list" ->
         \E i \in 1..Len(books_raw.val) : CasaRaises(books_raw.val[i])
    [] books_raw.tag = "str" -> books_raw.val # <<>>
    [] books_raw.tag = "obj" -> DOMAIN books_raw.val # {}
    [] OTHER -> TRUE

Books(books_raw) == IF books_raw.tag = "list" THEN books_raw.val ELSE <<>>

\* The first component of the sort key of casas.sort
NotBest(c) == ~(Truthy(c.isBest1) \/ Truthy(c.isBestX) \/ Truthy(c.isBest2))

\* key(a) < key(b) for key = (not best, nome_display); False < True
CasaKeyLessByNameOnly(a, b) == StrLess(a.nome_display, b.nome_display)
CasaKeyLess(a, b) ==
  \/ ~NotBest(a) /\ NotBest(b)
  \/ NotBest(a) = NotBest(b) /\ StrLess(a.nome_display, b.nome_display)

\* list.sort is stable: x goes before the first element whose key is greater.
RECURSIVE InsertCasa(_, _)
InsertCasa(sorted, x) ==
  IF sorted = <<>> THEN <<x>>
  ELSE IF CasaKeyLess(x, sorted[1]) THEN <<x>> \o sorted
  ELSE <<sorted[1]>> \o InsertCasa(Tail(sorted), x)

RECURSIVE SortCasas(_)
SortCasas(casas) ==
  IF casas = <<>> THEN <<>>
  ELSE InsertCasa(SortCasas(SubSeq(casas, 1, Len(casas) - 1)), casas[Len(casas)])

\* item.get("key", f"{time_casa}|{time_visitante}")
KeyOf(item, time_casa, time_visitante) ==
  Get(item, "key", Str(Fmt(time_casa) \o <<"|">> \o Fmt(time_visitante)))

\* .replace(" ", "_").lower()
JogoId(key) == Lower(ReplaceSpace(key))

\* The body of the per-item try block raises
ItemRaises(item) ==
  IF ~IsObj(item) THEN TRUE
  ELSE LET match == Get(item, "match", EmptyObj) IN
    \/ ~IsObj(match)
    \/ BestRaises(Get(item, "best", EmptyObj))
    \/ BooksRaise(Get(item, "books", List(<<>>)))
    \/ KeyOf(item, Get(match, "team1", Str(<<"?">>)),
             Get(match, "team2", Str(<<"?">>))).tag # "str"

\* The dict appended to jogos for one item that does not raise
Jogo(item) ==
  LET match == Get(item, "match", EmptyObj)
      time_casa == Get(match, "team1", Str(<<"?">>))
      time_visitante == Get(match, "team2", Str(<<"?">>))
      books == Books(Get(item, "books", List(<<>>)))
      casas == SortCasas([i \in 1..Len(books) |-> Casa(books[i])])
  IN [id |-> JogoId(KeyOf(item, time_casa, time_visitante).val),
      partida |-> Fmt(time_casa) \o <<" ", "v", "s", " ">> \o Fmt(time_visitante),
      time_casa |-> time_casa,
      time_visitante |-> time_visitante,
      competicao |-> Get(match, "competition", Str(<<>>)),
      data |-> Get(match, "date", Str(<<>>)),
      hora |-> Get(match, "kickoff_display", Str(<<>>)),
      total_casas |-> Len(casas),
      best |-> Best(Get(item, "best", EmptyObj)),
      casas |-> casas]

\* The loop over items: an item that raises is skipped (except ... continue)
RECURSIVE Jogos(_)
Jogos(items) ==
  IF items = <<>> THEN <<>>
  ELSE IF ItemRaises(items[1]) THEN Jogos(Tail(items))
  ELSE <<Jogo(items[1])>> \o Jogos(Tail(items))

\* key(a) < key(b) for key = (competicao, hora), on keys that compare
JogoKeyLess(a, b) ==
  IF a.competicao = b.competicao THEN StrLess(a.hora.val, b.hora.val)
  ELSE StrLess(a.competicao.val, b.competicao.val)

\* jogos.sort compares tuples (competicao, hora): a str against None raises
\* TypeError.  Any comparison sort of two or more keys must compare some None
\* key with some str key when both occur.  hora is always a str in the model.
SortJogosRaises(jogos) ==
  \E i, j \in 1..Len(jogos) : jogos[i].competicao.tag # jogos[j].competicao.tag

RECURSIVE InsertJogo(_, _)
InsertJogo(sorted, x) ==
  IF sorted = <<>> THEN <<x>>
  ELSE IF JogoKeyLess(x, sorted[1]) THEN <<x>> \o sorted
  ELSE <<sorted[1]>> \o InsertJogo(Tail(sorted), x)

RECURSIVE SortJogos(_)
SortJogos(jogos) ==
  IF jogos = <<>> THEN <<>>
  ELSE InsertJogo(SortJogos(SubSeq(jogos, 1, Len(jogos) - 1)), jogos[Len(jogos)])

\* len(items), outside any try, raises on None, a number or a boolean.  A str
\* or a dict iterates into strings, each of which the item loop skips.
ItemsRaise(items) == items.tag \in {"null", "num", "bool"}
ItemsOf(items) == IF items.tag = "list" THEN items.val ELSE <<>>

\* buscar_todos_jogos: [raised, jogos].  A failure of _buscar_raw is caught
\* and gives []; an exception outside the two try blocks propagates.
buscar_todos_jogos_propagating(http) ==
  LET raw == _buscar_raw(http) IN
  IF raw.raised \/ ItemsRaise(raw.items) THEN [raised |-> TRUE, jogos |-> <<>>]
  ELSE LET jogos == Jogos(ItemsOf(raw.items)) IN
    IF SortJogosRaises(jogos) THEN [raised |-> TRUE, jogos |-> <<>>]
    ELSE [raised |-> FALSE, jogos |-> SortJogos(jogos)]
buscar_todos_jogos(http) ==
  LET raw == _buscar_raw(http) IN
  IF raw.raised THEN [raised |-> FALSE, jogos |-> <<>>]
  ELSE IF ItemsRaise(raw.items) THEN [raised |-> TRUE, jogos |-> <<>>]
  ELSE LET jogos == Jogos(ItemsOf(raw.items)) IN
    IF SortJogosRaises(jogos) THEN [raised |-> TRUE, jogos |-> <<>>]
    ELSE [raised |-> FALSE, jogos |-> SortJogos(jogos)]

(***************************************************************************)
(* Inputs of the normaliser runs                                           *)
(***************************************************************************)
MaxItems == 3
MaxBooks == 3

RawBook(nome, b1, bx) ==
  Obj(("bookmaker" :> Str(nome)) @@ ("odd1" :> Num(236)) @@
      ("isBest1" :> Bool(b1)) @@ ("isBestX" :> Bool(bx)))

BookKto == RawBook(<<"k", "t", "o">>, FALSE, TRUE)
Book7k == RawBook(<<"7", "k">>, FALSE, FALSE)
BookBr4 == RawBook(<<"b", "r", "4">>, TRUE, FALSE)
BookAb == RawBook(<<"a", "b">>, FALSE, FALSE)
BookAsb == RawBook(<<"a", " ", "b">>, FALSE, FALSE)
RawBooks == {BookKto, Book7k, BookBr4, BookAb, BookAsb}

BookLists == UNION {[1..n -> RawBooks] : n \in 0..MaxBooks}

RawMatch(t1, t2, comp, hora) ==
  Obj(("team1" :> Str(t1)) @@ ("team2" :> Str(t2)) @@
      ("competition" :> comp) @@ ("kickoff_display" :> Str(hora)))

MatchAB == RawMatch(<<"A", "b">>, <<"B", "a">>, Str(<<"B", "r">>), <<"7">>)
MatchBZ == RawMatch(<<"B", "a">>, <<"Z">>, Str(<<"B", "a">>), <<"4">>)
BestNumeric ==
  Obj(("1" :> Obj(("odd" :> Num(251)) @@ ("bookmakers" :> List(<<Str(<<"k", "t", "o">>)>>)))))
BestAlpha ==
  Obj(("odd1" :> Obj(("odd" :> Num(240)) @@ ("bookmakers" :> List(<<Str(<<"7", "k">>)>>)))))

\* A well-formed item with the given books
ItemWithBooks(books) ==
  Obj(("key" :> Str(<<"A", " ", "b">>)) @@ ("match" :> MatchAB) @@
      ("best" :> BestNumeric) @@ ("books" :> List(books)))

ItemA == ItemWithBooks(<<Book7k, BookKto>>)
\* no key: the id falls back to the team pair
ItemB == Obj(("match" :> MatchBZ) @@ ("best" :> BestAlpha) @@ ("books" :> List(<<BookBr4>>)))
\* another event whose key differs from ItemA's only by case and separator
ItemA2 == Obj(("key" :> Str(<<"a", "_", "b">>)) @@ ("match" :> MatchBZ) @@ ("books" :> List(<<>>)))
\* the `match` key is missing
ItemNoMatch == Obj(("best" :> BestNumeric) @@ ("books" :> List(<<BookKto>>)))
\* the return leg of ItemB: no key, same team pair, another kick-off
ItemB2 ==
  Obj(("match" :> RawMatch(<<"B", "a">>, <<"Z">>, Str(<<"B", "a">>), <<"7">>)) @@
      ("books" :> List(<<Book7k>>)))
ItemMatchNull == Obj(("key" :> Str(<<"z">>)) @@ ("match" :> Null))
ItemNull == Null
ItemKeyNum == Obj(("key" :> Num(7)) @@ ("match" :> MatchAB))
ItemBooksNull == Obj(("match" :> MatchAB) @@ ("books" :> Null))
ItemBookNull == Obj(("match" :> MatchAB) @@ ("books" :> List(<<BookKto, Null>>)))
ItemBestNull == Obj(("match" :> MatchAB) @@ ("best" :> Null))
\* competition is null: the item is processed, its sort key is (None, hora)
ItemCompNull ==
  Obj(("key" :> Str(<<"n">>)) @@
      ("match" :> RawMatch(<<"A">>, <<"B">>, Null, <<"4">>)))

RawItems ==
  {ItemA, ItemB, ItemA2, ItemB2, ItemNoMatch, ItemMatchNull, ItemNull, ItemKeyNum,
   ItemBooksNull, ItemBookNull, ItemBestNull, ItemCompNull}

\* Payloads hold up to MaxItems items, no raw item twice
ItemLists ==
  {l \in UNION {[1..n -> RawItems] : n \in 0..MaxItems} :
     \A i, j \in 1..Len(l) : i # j => l[i] # l[j]}

HttpList(items) == [ok |-> TRUE, dados |-> List(items)]
HttpError == [ok |-> FALSE, dados |-> Null]

\* The responses a normaliser run starts from
NormPayloads ==
  {HttpList(items) : items \in ItemLists}
  \cup {HttpList(<<ItemWithBooks(books)>>) : books \in BookLists}
  \cup {HttpError,
        [ok |-> TRUE, dados |-> Obj(("data" :> Obj(("items" :> List(<<ItemA, ItemB>>)))))],
        [ok |-> TRUE, dados |-> Obj(("items" :> List(<<ItemB>>)))],
        [ok |-> TRUE, dados |-> Obj(("data" :> Null))],
        [ok |-> TRUE, dados |-> Obj(("data" :> Obj(("items" :> Null))))],
        [ok |-> TRUE, dados |-> Str(<<"z">>)]}

(***************************************************************************)
(* servidor.py: the cache gate                                             *)
(***************************************************************************)
CACHE_TTL == 60

\* time.time() when the process starts: seconds since 1970, far beyond
\* CACHE_TTL; the model starts at the smallest such value.
BootTime == CACHE_TTL + 1

\* Seconds the model lets pass after BootTime
MaxElapsed == 64
MaxNow == BootTime + MaxElapsed

\* Seconds a call of buscar_todos_jogos may take (requests timeout: 15)
FetchTimes == {0, 1}

\* What the provider may answer when the gate refreshes
CacheResponses ==
  {HttpError, HttpList(<<ItemA, ItemB>>), HttpList(<<ItemB>>),
   HttpList(<<ItemCompNull, ItemA>>)}

\* Each answer with what buscar_todos_jogos makes of it
CacheOutcomes ==
  {[failed |-> _buscar_raw(http).raised, r |-> buscar_todos_jogos(http)] :
     http \in CacheResponses}

\* The condition of the `if` in _obter_jogos
IsStaleOrEmpty(jogos, ts, t) == jogos = None \/ jogos[1] = <<>> \/ (t - ts) > CACHE_TTL
IsStale(jogos, ts, t) == jogos = None \/ (t - ts) > CACHE_TTL

\* The value _invalidar_cache stores in _cache_ts
InvalidarCacheKeepTs(ts) == ts
InvalidarCacheTs(ts) == 0

NoOp ==
  [op |-> "none", called |-> FALSE, failed |-> FALSE, raised |-> FALSE,
   ret |-> None, preJogos |-> None, preAge |-> 0, prePending |-> None,
   preFailCached |-> FALSE]

\* The clock advances between requests
Tick ==
  /\ now < MaxNow
  /\ now' = now + 1
  /\ last' = NoOp
  /\ UNCHANGED <<_cache_jogos, _cache_ts, pending, failCached>>
  /\ UNCHANGED <<concVars, normVars, arbVars>>

\* _obter_jogos, run from its first line to its return with no other request
\* in between.  o is the provider's answer and what buscar_todos_jogos makes
\* of it, d the time the call takes.
_obter_jogos ==
  \E o \in CacheOutcomes, d \in FetchTimes :
    LET stale == IsStale(_cache_jogos, _cache_ts, now)
        r == o.r
        pre == [NoOp EXCEPT !.op = "get", !.preJogos = _cache_jogos,
                            !.preAge = now - _cache_ts, !.prePending = pending,
                            !.preFailCached = failCached]
    IN /\ pending' = None
       /\ IF ~stale
          THEN /\ last' = [pre EXCEPT !.ret = _cache_jogos]
               /\ UNCHANGED <<now, _cache_jogos, _cache_ts, failCached>>
          ELSE /\ now + d <= MaxNow
               /\ now' = now + d
               /\ IF r.raised
                  THEN /\ last' = [pre EXCEPT !.called = TRUE, !.raised = TRUE,
                                              !.failed = o.failed]
                       /\ UNCHANGED <<_cache_jogos, _cache_ts, failCached>>
                  ELSE /\ _cache_jogos' = Some(r.jogos)
                       /\ _cache_ts' = now'
                       /\ failCached' = o.failed
                       /\ last' = [pre EXCEPT !.called = TRUE,
                                              !.failed = o.failed,
                                              !.ret = Some(r.jogos)]
       /\ UNCHANGED <<concVars, normVars, arbVars>>

\* _invalidar_cache (GET /api/atualizar)
_invalidar_cache ==
  /\ _cache_ts' = InvalidarCacheTs(_cache_ts)
  /\ pending' = IF pending = None THEN Some(_cache_ts) ELSE pending
  /\ last' = [NoOp EXCEPT !.op = "invalidate", !.preJogos = _cache_jogos,
                          !.preAge = now - _cache_ts, !.prePending = pending,
                          !.preFailCached = failCached]
  /\ UNCHANGED <<now, _cache_jogos, failCached>>
  /\ UNCHANGED <<concVars, normVars, arbVars>>

Callers == {1, 2}

InitCache ==
  /\ now = BootTime
  /\ _cache_jogos = None
  /\ _cache_ts = 0
  /\ pending = None
  /\ failCached = FALSE
  /\ last = NoOp

IdleConc ==
  /\ pc = [c \in Callers |-> "idle"]
  /\ fetched = [c \in Callers |-> <<>>]
  /\ calls = 0
  /\ episode = [open |-> FALSE, started |-> {}]
  /\ lost = [phase |-> "none", who |-> {}]

IdleNorm == payload = HttpError /\ normOut = None
IdleArb == arbIn = <<0, 0, 0, 0>> /\ arbOut = None

Init == InitCache /\ IdleConc /\ IdleNorm /\ IdleArb
Next == Tick \/ _obter_jogos \/ _invalidar_cache
Spec == Init /\ [][Next]_vars

(***************************************************************************)
(* Normaliser runs                                                         *)
(***************************************************************************)
Normalise ==
  /\ normOut = None
  /\ normOut' = Some(buscar_todos_jogos(payload))
  /\ UNCHANGED <<payload, cacheVars, concVars, arbVars>>

InitNorm ==
  /\ payload \in NormPayloads
  /\ normOut = None
  /\ InitCache /\ IdleConc /\ IdleArb
NextNorm == Normalise
SpecNorm == InitNorm /\ [][NextNorm]_vars

(***************************************************************************)
(* Claims about the cache gate, sequential runs (Spec)                     *)
(***************************************************************************)
\* C1: a sequential getMatches calls the provider exactly when the cache is
\* Cold (nothing cached) or Stale with now - fetchedAt >= TTL, the boundary
\* now - fetchedAt = TTL included; otherwise it returns the cached sequence
\* without calling the provider.
C1_RefreshIffColdOrAgeAtLeastTTL ==
  last.op = "get" =>
    /\ last.called <=> (last.preJogos = None \/ last.preAge >= CACHE_TTL)
    /\ ~last.called => last.ret = last.preJogos

\* C2: the getMatches call that follows invalidate calls the provider, whatever
\* is cached and however recently it was fetched; invalidate leaves the cached
\* matches as they were.
C2_InvalidateForcesRefresh ==
  /\ (last.op = "get" /\ last.prePending # None) => last.called
  /\ last.op = "invalidate" => _cache_jogos = last.preJogos

\* C2 witness: matches were cached, invalidate ran less than TTL after their
\* fetch, and the next getMatches has run.
C2_Witness ==
  /\ last.op = "get"
  /\ last.prePending # None
  /\ last.preJogos # None
  /\ last.prePending[1] > 0
  /\ now - last.prePending[1] < CACHE_TTL

\* C4: a refresh whose provider call fails does not raise; getMatches returns
\* the empty sequence and the cache now holds the empty sequence, not the
\* matches it held before.
C4_FailureYieldsEmpty ==
  (last.op = "get" /\ last.called /\ last.failed) =>
    /\ ~last.raised
    /\ last.ret = Some(<<>>)
    /\ _cache_jogos = Some(<<>>)

\* C4 witness: the provider failed while matches were cached.
C4_Witness ==
  /\ last.op = "get" /\ last.called /\ last.failed
  /\ last.preJogos # None
  /\ last.preJogos # Some(<<>>)

\* C10: a failed refresh is cached as Fresh: it stores the empty sequence with
\* fetchedAt = now; every getMatches in the TTL window after it, with no
\* invalidate in between, returns the empty sequence without calling the
\* provider; the provider is called again only after TTL expiry or invalidate.
C10_FailureCachedAsFresh ==
  /\ (last.op = "get" /\ last.called /\ last.failed) =>
       _cache_jogos = Some(<<>>) /\ _cache_ts = now /\ failCached
  /\ (last.op = "get" /\ last.preFailCached /\ last.prePending = None
        /\ last.preAge < CACHE_TTL) =>
       ~last.called /\ last.ret = Some(<<>>)
  /\ (last.op = "get" /\ last.preFailCached /\ last.called) =>
       last.preAge >= CACHE_TTL \/ last.prePending # None

\* C10 witness: getMatches ran inside the TTL window of a failed refresh.
C10_Witness ==
  /\ last.op = "get"
  /\ last.preFailCached
  /\ last.prePending = None
  /\ last.preAge > 0
  /\ last.preAge < CACHE_TTL
  /\ ~last.called

(***************************************************************************)
(* The cache gate under concurrent requests (SpecConc).  Flask serves each *)
(* request on its own thread and _obter_jogos takes no lock: a thread can  *)
(* be preempted between any two statements, and the blocking HTTP call     *)
(* releases the interpreter lock.                                          *)
(***************************************************************************)
\* Provider calls counted since the last invalidate, at most
MaxCalls == 3
\* Clock jumps of the concurrent runs, each of CACHE_TTL + 1 seconds
MaxJumps == 1

\* line 38: the staleness check
CStart(c) ==
  /\ pc[c] = "idle"
  /\ pc' = [pc EXCEPT ![c] =
              IF IsStale(_cache_jogos, _cache_ts, now) THEN "fetch" ELSE "return"]
  /\ episode' = IF episode.open /\ c \notin episode.started
                THEN [episode EXCEPT !.started = @ \cup {c}]
                ELSE [open |-> FALSE, started |-> {}]
  /\ lost' = IF lost.phase = "armed"
             THEN [lost EXCEPT !.phase =
                     IF IsStale(_cache_jogos, _cache_ts, now)
                     THEN "refreshed" ELSE "served"]
             ELSE lost
  /\ UNCHANGED <<fetched, calls, cacheVars, normVars, arbVars>>

\* line 40, right-hand side: the call of buscar_todos_jogos.  An exception
\* it lets through ends the request.
CFetch(c) ==
  /\ pc[c] = "fetch"
  /\ \E o \in CacheOutcomes :
       /\ pc' = [pc EXCEPT ![c] = IF o.r.raised THEN "idle" ELSE "store_jogos"]
       /\ fetched' = [fetched EXCEPT ![c] = o.r.jogos]
       /\ episode' = IF o.r.raised THEN [open |-> FALSE, started |-> {}] ELSE episode
  /\ calls' = IF calls < MaxCalls THEN calls + 1 ELSE calls
  /\ lost' = IF lost.phase \in {"inflight", "armed"}
             THEN [phase |-> "none", who |-> {}]
             ELSE lost
  /\ UNCHANGED <<cacheVars, normVars, arbVars>>

\* line 40: the assignment to _cache_jogos
CStoreJogos(c) ==
  /\ pc[c] = "store_jogos"
  /\ _cache_jogos' = Some(fetched[c])
  /\ pc' = [pc EXCEPT ![c] = "store_ts"]
  /\ UNCHANGED <<now, _cache_ts, pending, failCached, last>>
  /\ UNCHANGED <<fetched, calls, episode, lost, normVars, arbVars>>

\* line 41: _cache_ts = time.time()
CStoreTs(c) ==
  /\ pc[c] = "store_ts"
  /\ _cache_ts' = now
  /\ pc' = [pc EXCEPT ![c] = "return"]
  /\ lost' = IF lost.phase = "inflight"
             THEN IF lost.who \subseteq {c}
                  THEN [phase |-> "armed", who |-> {}]
                  ELSE [lost EXCEPT !.who = @ \ {c}]
             ELSE lost
  /\ UNCHANGED <<now, _cache_jogos, pending, failCached, last>>
  /\ UNCHANGED <<fetched, calls, episode, normVars, arbVars>>

\* line 43: return _cache_jogos
CReturn(c) ==
  /\ pc[c] = "return"
  /\ pc' = [pc EXCEPT ![c] = "idle"]
  /\ fetched' = [fetched EXCEPT ![c] = <<>>]
  /\ UNCHANGED <<calls, episode, lost, cacheVars, normVars, arbVars>>

\* Callers whose provider call is made and whose result is not yet stored
InFlight == {c \in Callers : pc[c] \in {"store_jogos", "store_ts"}}

\* _invalidar_cache, one store
CInvalidate ==
  /\ _cache_ts' = InvalidarCacheTs(_cache_ts)
  /\ calls' = 0
  /\ episode' = [open |-> \A c \in Callers : pc[c] = "idle", started |-> {}]
  /\ lost' = IF InFlight # {}
             THEN [phase |-> "inflight", who |-> InFlight]
             ELSE [phase |-> "none", who |-> {}]
  /\ UNCHANGED <<now, _cache_jogos, pending, failCached, last>>
  /\ UNCHANGED <<pc, fetched, normVars, arbVars>>

\* More than a TTL passes
CJump ==
  /\ now + CACHE_TTL + 1 <= BootTime + MaxJumps * (CACHE_TTL + 1)
  /\ now' = now + CACHE_TTL + 1
  /\ episode' = [open |-> FALSE, started |-> {}]
  /\ UNCHANGED <<_cache_jogos, _cache_ts, pending, failCached, last>>
  /\ UNCHANGED <<pc, fetched, calls, lost, normVars, arbVars>>

InitConc == InitCache /\ IdleConc /\ IdleNorm /\ IdleArb
NextConc ==
  \/ \E c \in Callers :
       CStart(c) \/ CFetch(c) \/ CStoreJogos(c) \/ CStoreTs(c) \/ CReturn(c)
  \/ CInvalidate
  \/ CJump
SpecConc == InitConc /\ [][NextConc]_vars

\* C3: when getMatches is called right after invalidate, by one caller or by
\* several at once, the provider is called exactly once in total.
C3_ExactlyOneProviderCall ==
  (episode.open /\ episode.started # {} /\ \A c \in Callers : pc[c] = "idle")
    => calls = 1

\* C9: an invalidate that runs while a refresh is in flight is not lost: the
\* first getMatches to start after that refresh completes refreshes again.
C9_InvalidationNotLost == lost.phase # "served"

(***************************************************************************)
(* Claims about the normaliser (SpecNorm)                                  *)
(***************************************************************************)
NormJogos == normOut[1].jogos
PayloadItems == payload.dados.val
IsItemList == payload.ok /\ payload.dados.tag = "list"

\* A well-formed item: an object whose `match` is an object and whose
\* processing raises nothing
WellFormed(item) ==
  /\ IsObj(item)
  /\ "match" \in DOMAIN item.val
  /\ ~ItemRaises(item)

\* C5: the normaliser skips every malformed item without aborting the batch:
\* each well-formed item yields exactly one Match, and an item whose `match`
\* key is missing yields none.
C5_OneMatchPerWellFormedItem ==
  (normOut # None /\ IsItemList) =>
    /\ ~normOut[1].raised
    /\ Len(NormJogos) =
         Cardinality({i \in 1..Len(PayloadItems) : WellFormed(PayloadItems[i])})

CasasOrdered(casas) ==
  \A i, j \in 1..Len(casas) :
    i < j =>
      /\ ~(NotBest(casas[i]) /\ ~NotBest(casas[j]))
      /\ NotBest(casas[i]) = NotBest(casas[j]) =>
           ~StrLess(casas[j].nome_display, casas[i].nome_display)

\* C7: in every Match the normaliser returns, no quote without a best flag
\* precedes a quote with one, and within each of the two groups displayName is
\* non-decreasing in string order.
C7_QuotesRanked ==
  normOut # None => \A k \in 1..Len(NormJogos) : CasasOrdered(NormJogos[k].casas)

\* C7 witness: three books arrive as ab, 7k, kto (kto alone has a best flag)
\* and leave as KTO, 7K, Ab.
C7_Witness ==
  /\ payload = HttpList(<<ItemWithBooks(<<BookAb, Book7k, BookKto>>)>>)
  /\ normOut # None
  /\ Len(NormJogos) = 1
  /\ [i \in 1..3 |-> NormJogos[1].casas[i].nome_display]
       = <<<<"K", "T", "O">>, <<"7", "K">>, <<"A", "b">>>>

\* C8: no two Matches of one normaliser pass have the same id.
C8_IdsUnique ==
  normOut # None =>
    \A i, j \in 1..Len(NormJogos) : i # j => NormJogos[i].id # NormJogos[j].id

(***************************************************************************)
(* scrapers/oddsmonitor.py: the freebet calculator.  Odds are given in     *)
(* tenths; the arithmetic is exact on fractions <<numerator, denominator>> *)
(* where Python computes in double precision.                              *)
(***************************************************************************)
Abs(x) == IF x < 0 THEN -x ELSE x

RECURSIVE GCD(_, _)
GCD(a, b) == IF b = 0 THEN a ELSE GCD(b, a % b)

\* The fraction n/d (d # 0) in lowest terms with a positive denominator
Frac(n, d) ==
  LET g == GCD(Abs(n), Abs(d))
      sgn == IF d < 0 THEN -1 ELSE 1
  IN <<sgn * (n \div g), sgn * (d \div g)>>

FAdd(a, b) == Frac(a[1] * b[2] + b[1] * a[2], a[2] * b[2])
FSub(a, b) == Frac(a[1] * b[2] - b[1] * a[2], a[2] * b[2])
FMul(a, b) == Frac(a[1] * b[1], a[2] * b[2])
\* a / b, for b # 0
FDiv(a, b) == Frac(a[1] * b[2], a[2] * b[1])
FLess(a, b) == a[1] * b[2] < b[1] * a[2]
FMin(a, b) == IF FLess(b, a) THEN b ELSE a

\* round(x, places) as a count of 10^-places, ties to even
Round(x, places) ==
  LET scale == IF places = 1 THEN 10 ELSE 100
      n == x[1] * scale
      q == n \div x[2]
      twice == 2 * (n - q * x[2])
  IN IF twice > x[2] \/ (twice = x[2] /\ q % 2 = 1) THEN q + 1 ELSE q

\* _calcular_roi_freebet.  None (the empty tuple) where the code returns None:
\* odd_2 <= 1, or a ZeroDivisionError caught by `except Exception`.
_calcular_roi_freebet(odd_1, odd_x, odd_2, valor_freebet) ==
  IF odd_1 = 0 \/ odd_x = 0 THEN None
  ELSE IF ~(odd_2 > 10) THEN None
  ELSE
    LET o1 == Frac(odd_1, 10)
        ox == Frac(odd_x, 10)
        o2m == Frac(odd_2 - 10, 10)
        vf == Frac(valor_freebet, 1)
        inv_casa == FDiv(<<1, 1>>, o1)
        inv_empate == FDiv(<<1, 1>>, ox)
        inv_visitante == FDiv(<<1, 1>>, o2m)
        total_inv == FAdd(FAdd(inv_casa, inv_empate), inv_visitante)
    IN IF total_inv[1] = 0 THEN None
       ELSE
         LET stake_casa == FMul(FDiv(vf, total_inv), inv_casa)
             stake_emp == FMul(FDiv(vf, total_inv), inv_empate)
             stake_vis == vf
             ret_casa == FMul(stake_casa, o1)
             ret_emp == FMul(stake_emp, ox)
             ret_vis == FMul(stake_vis, o2m)
             lucro == FSub(FSub(FMin(FMin(ret_casa, ret_emp), ret_vis), stake_casa),
                           stake_emp)
         IN IF valor_freebet = 0 THEN None
            ELSE Some([roi_pct |-> Round(FMul(FDiv(lucro, vf), <<100, 1>>), 1),
                       lucro_garantido |-> Round(lucro, 2),
                       total_investido |-> Round(FAdd(stake_casa, stake_emp), 2),
                       apostas |-> [casa |-> Round(stake_casa, 2),
                                    empate |-> Round(stake_emp, 2),
                                    visitante_freebet |-> Round(stake_vis, 2)]])

\* Odds (in tenths) and freebet values the calculator runs start from
ArbOdds == {0, 9, 10, 11, 20, 30, 40}
ArbFreebets == {0, 10}

Calcular ==
  /\ arbOut = None
  /\ arbOut' = Some(_calcular_roi_freebet(arbIn[1], arbIn[2], arbIn[3], arbIn[4]))
  /\ UNCHANGED <<arbIn, cacheVars, concVars, normVars>>

InitArb ==
  /\ arbIn \in ArbOdds \X ArbOdds \X ArbOdds \X ArbFreebets
  /\ arbOut = None
  /\ InitCache /\ IdleConc /\ IdleNorm
NextArb == Calcular
SpecArb == InitArb /\ [][NextArb]_vars

\* C6: the calculator returns none whenever one of the three odds is <= 1 or
\* the arithmetic fails, and returns an Allocation only when all three odds are
\* strictly greater than 1.
C6_NoneUnlessAllOddsAboveOne ==
  (arbOut # None /\ (arbIn[1] <= 10 \/ arbIn[2] <= 10 \/ arbIn[3] <= 10))
    => arbOut[1] = None
====
